---- MODULE Spec2Model ----
(***************************************************************************)
(* Cross & Crescent, app.js: the style animator (animateStyle,             *)
(* fadeOutLayers, fadeInMarker), the curve builder (makeCurvedRoute) and   *)
(* the period-transition sequencer, as one state machine.                  *)
(*                                                                         *)
(* JavaScript numbers are binary floating point.  A style value is held    *)
(* as an integer count of Units (1.0 = One units) and every arithmetic     *)
(* result is rounded to Precision significant bits, ties to even, as       *)
(* IEEE-754 does with 53 bits.  Time stamps are whole numbers, which a     *)
(* double holds exactly, and no duration exceeds 2^Precision.              *)
(***************************************************************************)
EXTENDS Integers, Sequences, FiniteSets, TLC

VARIABLES clock, lastFrame, layers, anims, markersLayer, routesLayer,
          selectedMarker, isTransitioning, renderToken, timers, lastPeriod,
          log, resolved, curve

vars == <<clock, lastFrame, layers, anims, markersLayer, routesLayer,
          selectedMarker, isTransitioning, renderToken, timers, lastPeriod,
          log, resolved, curve>>

animVars == <<clock, lastFrame, layers, anims>>
seqVars == <<markersLayer, routesLayer, selectedMarker, isTransitioning,
             renderToken, timers, lastPeriod, log, resolved>>

----------------------------------------------------------------------------
(* Bounds *)

Precision == 3        \* significant bits of a number
UnitExp == 5          \* 1.0 is 2^UnitExp units
MaxClock == 9         \* performance.now() stops advancing here
FrameLag == 1         \* a frame's time stamp may trail performance.now() by this much
TimerLag == 1         \* a timer's callback may run this much after it is due
MaxDur == 3           \* longest durationMs of a direct animateStyle call
FadeOutDuration == 2  \* durationMs of the fade-out of a period change
FadeInDuration == 3   \* durationMs of the fade-in of a period change
MaxRequests == 2      \* period-change requests
NumPeriods == 2       \* entries of PERIODS
MaxStep == 10         \* the sample pixel points are k * (60, 80), k <= MaxStep

----------------------------------------------------------------------------
(* Floating point *)

RECURSIVE Pow2(_)
Pow2(n) == IF n = 0 THEN 1 ELSE 2 * Pow2(n - 1)

One == Pow2(UnitExp)

Abs(x) == IF x < 0 THEN 0 - x ELSE x

Min(x, y) == IF x < y THEN x ELSE y

\* The spacing of the representable numbers around m/d: the least power
\* of two s with m/d < 2^Precision * s.
RECURSIVE StepFor(_, _, _)
StepFor(m, limit, s) == IF m < limit * s THEN s ELSE StepFor(m, limit, 2 * s)

\* q + r/ds rounded to the nearest whole number, ties to the even one.
RoundQuotient(q, r, ds) ==
  IF 2 * r > ds \/ (2 * r = ds /\ q % 2 = 1) THEN q + 1 ELSE q

RoundAt(m, ds, s) == RoundQuotient(m \div ds, m % ds, ds) * s

\* The one element of a singleton; it binds a computed value to a name.
The(S) == CHOOSE v \in S : TRUE

\* m/d rounded, for m >= 0.
RoundMagnitude(m, d) ==
  The({RoundAt(m, d * s, s) : s \in {StepFor(m, Pow2(Precision) * d, 1)}})

RoundSigned(x, d) ==
  IF x < 0 THEN 0 - RoundMagnitude(0 - x, d) ELSE RoundMagnitude(x, d)

\* n/d rounded to the nearest representable number, ties to the even mantissa.
Fl(n, d) == The({RoundSigned(x, d) : x \in {n}})

FAdd(x, y) == Fl(x + y, 1)
FSub(x, y) == Fl(x - y, 1)
FMul(x, y) == Fl(x * y, One)

----------------------------------------------------------------------------
(* Style animator *)

easeLinear(t) == t

\* t of tick: Math.min(1, (now - start) / durationMs)
Fraction(now, start, durationMs) == Min(One, Fl((now - start) * One, durationMs))

\* cur of tick: for every key of `to`, a + (b - a) * e with a = from[k] ?? 0
CurStyle(from, to, e) ==
  [k \in DOMAIN to |->
     LET a == IF k \in DOMAIN from THEN from[k] ELSE 0
         b == to[k]
     IN FAdd(a, FMul(FSub(b, a), e))]

\* layer.setStyle(style): the given keys replace the layer's options
setStyle(options, style) ==
  [k \in DOMAIN options \cup DOMAIN style |->
     IF k \in DOMAIN style THEN style[k] ELSE options[k]]

\* tickAt with onDone invoked on every frame.
tickAtDoneEveryFrame(a, now, t) ==
  [a EXCEPT !.last = <<CurStyle(a.from, a.to, easeLinear(t))>>,
            !.lastNow = now,
            !.pending = IF t < One THEN a.pending ELSE a.pending - 1,
            !.early = a.early \/ t < One,
            !.ended = a.ended \/ ~(t < One),
            !.late = a.late \/ a.ended,
            !.doneCalls = IF a.onDone THEN a.doneCalls + 1 ELSE a.doneCalls]

\* One run of tick(now) for animation a, t being its elapsed fraction: the
\* record after the callback.  pending counts the frame callbacks the
\* animation has requested and not yet received; early, ended and late
\* record which frames it has seen.
tickAt(a, now, t) ==
  [a EXCEPT !.last = <<CurStyle(a.from, a.to, easeLinear(t))>>,
            !.lastNow = now,
            !.pending = IF t < One THEN a.pending ELSE a.pending - 1,
            !.early = a.early \/ t < One,
            !.ended = a.ended \/ ~(t < One),
            !.late = a.late \/ a.ended,
            !.doneCalls = IF t < One THEN a.doneCalls
                          ELSE IF a.onDone THEN a.doneCalls + 1 ELSE a.doneCalls]

\* tick that stops at the next frame once its transition is superseded.
tickUnlessSuperseded(a, now) ==
  IF a.token # renderToken THEN [a EXCEPT !.pending = 0]
  ELSE tickAt(a, now, Fraction(now, a.start, a.dur))

tick(a, now) == tickAt(a, now, Fraction(now, a.start, a.dur))

\* animateStyle(layer, from, to, durationMs, onDone): start is read from the
\* clock and the first frame is requested.
NewAnim(layer, from, to, durationMs, onDone, kind, token) ==
  [layer |-> layer, from |-> from, to |-> to, start |-> clock, dur |-> durationMs,
   onDone |-> onDone, kind |-> kind, token |-> token,
   pending |-> 1, last |-> << >>, lastNow |-> 0 - 1,
   early |-> FALSE, ended |-> FALSE, late |-> FALSE, doneCalls |-> 0]

\* The n callbacks animation a had requested when the frame began.
RECURSIVE RunCallbacks(_, _, _)
RunCallbacks(a, now, n) ==
  IF n = 0 THEN a ELSE RunCallbacks(tick(a, now), now, n - 1)

\* The animations whose callback in this frame sets key k of layer l.
Setters(as, l, k) ==
  {i \in 1..Len(as) : as[i].pending > 0 /\ as[i].layer = l /\ k \in DOMAIN as[i].to}

StyleKeys(as) == UNION {DOMAIN as[i].to : i \in 1..Len(as)}

LastOf(S) == CHOOSE i \in S : \A j \in S : j <= i

\* The options of the layers after the callbacks of a frame have run in the
\* order they were requested: as before the frame, bs after it.
FrameStyles(ls, as, bs) ==
  [l \in DOMAIN ls |->
     [k \in DOMAIN ls[l] \cup {k \in StyleKeys(as) : Setters(as, l, k) # {}} |->
        IF Setters(as, l, k) = {} THEN ls[l][k]
        ELSE bs[LastOf(Setters(as, l, k))].last[1][k]]]

\* The browser delivers a display frame to every requested callback.
Frame ==
  /\ \E i \in 1..Len(anims) : anims[i].pending > 0
  /\ \E now \in 0..clock :
       /\ now >= clock - FrameLag
       /\ now > lastFrame
       /\ anims' = [i \in 1..Len(anims) |-> RunCallbacks(anims[i], now, anims[i].pending)]
       /\ layers' = FrameStyles(layers, anims, anims')
       /\ lastFrame' = now
  /\ UNCHANGED <<clock, seqVars, curve>>

\* performance.now() advances; a timer fires at most TimerLag late.
Advance ==
  /\ clock < MaxClock
  /\ \A tm \in timers : clock < tm.due + TimerLag
  /\ clock' = clock + 1
  /\ UNCHANGED <<lastFrame, layers, anims, seqVars, curve>>

----------------------------------------------------------------------------
(* A caller of animateStyle *)

CallerLayer == <<0, "marker">>

\* 0, the smallest number, one that is two steps past the exactly spaced
\* numbers, and 1.0
SampleValues == {0, 1, Pow2(Precision) + 2, One}

CallStyles ==
  [{"opacity"} -> SampleValues] \cup
  {[opacity |-> v, weight |-> One] : v \in SampleValues}

AnimateStyleCall ==
  /\ anims = << >>
  /\ \E from \in CallStyles \cup {<< >>}, to \in [{"opacity"} -> SampleValues],
        d \in 1..MaxDur, onDone \in BOOLEAN :
       anims' = Append(anims, NewAnim(CallerLayer, from, to, d, onDone, "call", 0))
  /\ UNCHANGED <<clock, lastFrame, layers, seqVars, curve>>

NoCurve == [kind |-> "none"]

InitAnim ==
  /\ clock \in 0..1
  /\ lastFrame = 0 - 1
  /\ layers = (CallerLayer :> [opacity |-> One, fillOpacity |-> One])
  /\ anims = << >>
  /\ markersLayer = {} /\ routesLayer = {}
  /\ selectedMarker = <<0, "none">>
  /\ isTransitioning = FALSE
  /\ renderToken = 0
  /\ timers = {}
  /\ lastPeriod = 0
  /\ log = << >>
  /\ resolved = {}
  /\ curve = NoCurve

NextAnim == AnimateStyleCall \/ Frame \/ Advance

SpecAnim == InitAnim /\ [][NextAnim]_vars

----------------------------------------------------------------------------
(* Layers *)

Null == <<0, "none">>

RECURSIVE SetToSeq(_)
SetToSeq(S) == IF S = {} THEN << >>
               ELSE LET x == CHOOSE y \in S : TRUE IN <<x>> \o SetToSeq(S \ {x})

\* fillOpacity 0.65 of markerStyleBase, 0.5 and 0.9 and 1 of fadeOutLayers
BaseFillOpacity == Fl(65 * One, 100)
DefaultFillOpacity == Fl(5 * One, 10)
DefaultRouteOpacity == Fl(9 * One, 10)

markerStyleBase == [opacity |-> 0, fillOpacity |-> BaseFillOpacity]

\* clearLayers that leaves the routes.
clearLayersKeepRoutes(st) ==
  [st EXCEPT !.markersLayer = {}, !.selectedMarker = Null]

\* clearLayers that leaves the selection.
clearLayersKeepSelection(st) ==
  [st EXCEPT !.markersLayer = {}, !.routesLayer = {}]

\* clearLayers(): both groups are emptied and the selection is dropped.
clearLayers(st) ==
  [st EXCEPT !.markersLayer = {}, !.routesLayer = {}, !.selectedMarker = Null]

\* The animations fadeOutLayers starts: the markers, then the routes.
RECURSIVE FadeOutMarkers(_, _, _, _)
FadeOutMarkers(ms, ls, durationMs, token) ==
  IF ms = << >> THEN << >>
  ELSE LET m == Head(ms)
           from == [fillOpacity |-> IF "fillOpacity" \in DOMAIN ls[m]
                                    THEN ls[m].fillOpacity ELSE DefaultFillOpacity,
                    opacity |-> IF "opacity" \in DOMAIN ls[m]
                                THEN ls[m].opacity ELSE One]
           to == [fillOpacity |-> 0, opacity |-> 0]
       IN <<NewAnim(m, from, to, durationMs, FALSE, "fadeOut", token)>>
            \o FadeOutMarkers(Tail(ms), ls, durationMs, token)

RECURSIVE FadeOutRoutes(_, _, _, _)
FadeOutRoutes(rs, ls, durationMs, token) ==
  IF rs = << >> THEN << >>
  ELSE LET r == Head(rs)
           from == [opacity |-> IF "opacity" \in DOMAIN ls[r]
                                THEN ls[r].opacity ELSE DefaultRouteOpacity]
           to == [opacity |-> 0]
       IN <<NewAnim(r, from, to, durationMs, FALSE, "fadeOut", token)>>
            \o FadeOutRoutes(Tail(rs), ls, durationMs, token)

\* A timer that is due before the duration has passed.
FadeOutDueEarly(durationMs) == clock + durationMs - 1

\* The time at which the timer of fadeOutLayers may resolve its promise.
FadeOutDue(durationMs) == clock + durationMs

\* fadeOutLayers(markersLayer, routesLayer, durationMs): the animations it
\* starts and the timer whose callback resolves the returned promise.
fadeOutLayers(ms, rs, ls, durationMs, token) ==
  [anims |-> FadeOutMarkers(SetToSeq(ms), ls, durationMs, token)
               \o FadeOutRoutes(SetToSeq(rs), ls, durationMs, token),
   due |-> FadeOutDue(durationMs)]

\* fadeInMarker(marker, targetFillOpacity, durationMs): the style it sets
\* and the animation it starts.
fadeInMarker(marker, targetFillOpacity, durationMs, token) ==
  [style |-> [fillOpacity |-> 0, opacity |-> 0],
   anim |-> NewAnim(marker, [fillOpacity |-> 0, opacity |-> 0],
                    [fillOpacity |-> targetFillOpacity, opacity |-> One],
                    durationMs, FALSE, "fadeIn", token)]

----------------------------------------------------------------------------
(* Transition sequencer *)

Periods == 1..NumPeriods

MarkerOf(token) == <<token, "marker">>
RouteOf(token) == <<token, "route">>

TokenOf(layer) == layer[1]
PeriodOf(layer) == log[TokenOf(layer)].period

\* A period change up to its await: the token is incremented, the current
\* layers start fading out and the completion timer is set.
RequestPeriod(p) ==
  /\ renderToken < MaxRequests
  /\ p # lastPeriod
  /\ clock + FadeOutDuration + TimerLag + FadeInDuration <= MaxClock
  /\ LET token == renderToken + 1
         fade == fadeOutLayers(markersLayer, routesLayer, layers, FadeOutDuration, token)
     IN /\ renderToken' = token
        /\ isTransitioning' = TRUE
        /\ lastPeriod' = p
        /\ anims' = anims \o fade.anims
        /\ timers' = timers \cup {[token |-> token, period |-> p, due |-> fade.due]}
        /\ log' = Append(log, [period |-> p, steps |-> <<"token", "fadeOut">>])
  /\ UNCHANGED <<clock, lastFrame, layers, markersLayer, routesLayer,
                 selectedMarker, resolved, curve>>

\* A guard that lets every transition through.
IsLatestAlways(token) == TRUE

\* Whether the transition that captured `token` is still the latest request.
IsLatest(token) == token = renderToken

\* The markers and routes of a period are built, added and faded in.
DrawPeriod(token) ==
  LET m == MarkerOf(token)
      r == RouteOf(token)
      fin == fadeInMarker(m, markerStyleBase.fillOpacity, FadeInDuration, token)
  IN [markers |-> {m},
      routes |-> {r},
      layers |-> (m :> setStyle(markerStyleBase, fin.style)) @@ (r :> [opacity |-> 0]),
      anims |-> <<fin.anim,
                  NewAnim(r, [opacity |-> 0], [opacity |-> DefaultRouteOpacity],
                          FadeInDuration, FALSE, "fadeIn", token)>>]

\* The rest of a period change, run when the fade-out promise resolves.
\* Timers of equal delay fire in the order they were set.
Resume ==
  \E tm \in timers :
    /\ clock >= tm.due
    /\ \A other \in timers : tm.token <= other.token
    /\ timers' = timers \ {tm}
    /\ resolved' = resolved \cup {tm.token}
    /\ IF IsLatest(tm.token)
       THEN LET cleared == clearLayers([markersLayer |-> markersLayer,
                                        routesLayer |-> routesLayer,
                                        selectedMarker |-> selectedMarker])
                drawn == DrawPeriod(tm.token)
            IN /\ markersLayer' = cleared.markersLayer \cup drawn.markers
               /\ routesLayer' = cleared.routesLayer \cup drawn.routes
               /\ selectedMarker' = cleared.selectedMarker
               /\ layers' = drawn.layers @@ layers
               /\ anims' = anims \o drawn.anims
               /\ isTransitioning' = FALSE
               /\ log' = [log EXCEPT ![tm.token].steps =
                                      @ \o <<"awaited", "clear", "build", "fadeIn">>]
       ELSE /\ log' = [log EXCEPT ![tm.token].steps = Append(@, "awaited")]
            /\ UNCHANGED <<markersLayer, routesLayer, selectedMarker, layers,
                           anims, isTransitioning>>
    /\ UNCHANGED <<clock, lastFrame, renderToken, lastPeriod, curve>>

\* A click on a marker selects it.
SelectMarker ==
  /\ \E m \in markersLayer : m # selectedMarker /\ selectedMarker' = m
  /\ UNCHANGED <<animVars, markersLayer, routesLayer, isTransitioning,
                 renderToken, timers, lastPeriod, log, resolved, curve>>

Init ==
  /\ clock = 0
  /\ lastFrame = 0 - 1
  /\ layers = << >>
  /\ anims = << >>
  /\ markersLayer = {} /\ routesLayer = {}
  /\ selectedMarker = Null
  /\ isTransitioning = FALSE
  /\ renderToken = 0
  /\ timers = {}
  /\ lastPeriod = 0
  /\ log = << >>
  /\ resolved = {}
  /\ curve = NoCurve

Next ==
  \/ \E p \in Periods : RequestPeriod(p)
  \/ Resume
  \/ SelectMarker
  \/ Frame
  \/ Advance

Spec == Init /\ [][Next]_vars

\* The browser keeps delivering frames and due timers, and time advances.
SpecFair == Spec /\ WF_vars(Frame) /\ WF_vars(Advance) /\ WF_vars(Resume)

----------------------------------------------------------------------------
(* Curve builder *)

\* A coordinate is a finite number or NaN.
Num(v) == <<"num", v>>
NaN == <<"NaN", 0>>
IsNaN(x) == x[1] = "NaN"
IsFinite(x) == x[1] = "num"

XAdd(x, y) == IF IsNaN(x) \/ IsNaN(y) THEN NaN ELSE Num(x[2] + y[2])
XSub(x, y) == IF IsNaN(x) \/ IsNaN(y) THEN NaN ELSE Num(x[2] - y[2])
XMul(x, y) == IF IsNaN(x) \/ IsNaN(y) THEN NaN ELSE Num(x[2] * y[2])
XNeg(x) == IF IsNaN(x) THEN NaN ELSE Num(0 - x[2])
\* the sample points keep every quotient whole; x / 0 is not finite
XDiv(x, y) == IF IsNaN(x) \/ IsNaN(y) \/ y[2] = 0 THEN NaN ELSE Num(x[2] \div y[2])

MaxLen == 100 * (MaxStep + 2)

\* Math.sqrt on the squares the sample points produce
XSqrt(x) == IF IsNaN(x) THEN NaN ELSE Num(CHOOSE r \in 0..MaxLen : r * r = x[2])

\* v || 1 : NaN and 0 are falsy
OrOne(x) == IF IsNaN(x) \/ x[2] = 0 THEN Num(1) ELSE x

MinBend == 40
MaxBend == 120

\* The bend without its upper clamp.
BendUnclamped(len) ==
  IF (len * 15) \div 100 > MinBend THEN (len * 15) \div 100 ELSE MinBend

\* Math.min(120, Math.max(40, len * 0.15)), len being finite
Bend(len) ==
  LET scaled == (len * 15) \div 100
      atLeast == IF scaled > MinBend THEN scaled ELSE MinBend
  IN IF atLeast < MaxBend THEN atLeast ELSE MaxBend

\* A readiness test that does not look at map._loaded.
CurveReadyUnloaded(hasCurve, mapState) == hasCurve /\ mapState # "null"

\* typeof L.curve === "function" and !!(map && map._loaded)
CurveReady(hasCurve, mapState) == hasCurve /\ mapState = "loaded"

\* !pA || !pB || typeof pA.x !== "number" || typeof pB.x !== "number"
Unprojected(pA, pB) == pA = << >> \/ pB = << >>

\* The geometry of the curve: mid point, length, perpendicular unit vector,
\* bend and control point, from the projected end points.
Geometry(pA, pB) ==
  LET midx == XDiv(XAdd(pA.x, pB.x), Num(2))
      midy == XDiv(XAdd(pA.y, pB.y), Num(2))
      dx == XSub(pB.x, pA.x)
      dy == XSub(pB.y, pA.y)
      len == OrOne(XSqrt(XAdd(XMul(dx, dx), XMul(dy, dy))))
      ux == XDiv(XNeg(dy), len)
      uy == XDiv(dx, len)
      bend == Bend(len[2])
  IN [dx |-> dx, dy |-> dy, len |-> len[2], bend |-> bend,
      control |-> [x |-> XAdd(midx, XDiv(XMul(XNeg(dy), Num(bend)), len)),
                   y |-> XAdd(midy, XDiv(XMul(dx, Num(bend)), len))]]

\* Whether every coordinate handed to the curve is finite: the end points
\* and the control point, which map.layerPointToLatLng carries over.
AllFinite(pA, pB, control) ==
  /\ IsFinite(pA.x) /\ IsFinite(pA.y) /\ IsFinite(pB.x) /\ IsFinite(pB.y)
  /\ IsFinite(control.x) /\ IsFinite(control.y)

Polyline(from, to) == [kind |-> "polyline", points |-> <<from, to>>]

\* makeCurvedRoute(fromLatLng, toLatLng, style): from and to name the end
\* points, pA and pB are what map.latLngToLayerPoint returns for them.
makeCurvedRoute(hasCurve, mapState, from, to, pA, pB) ==
  IF ~CurveReady(hasCurve, mapState) THEN Polyline(from, to)
  ELSE IF Unprojected(pA, pB) THEN Polyline(from, to)
  ELSE LET g == Geometry(pA, pB)
       IN IF ~AllFinite(pA, pB, g.control) THEN Polyline(from, to)
          ELSE [kind |-> "curve", points |-> <<from, g.control, to>>]

\* The sample pixel points: multiples of (60, 80), whose distances are
\* multiples of 100, and points with a NaN coordinate.
Steps == {0, 1, 3, 4, 8, MaxStep}

PixelPoints ==
  {[x |-> Num(60 * k), y |-> Num(80 * k)] : k \in Steps}
  \cup {[x |-> NaN, y |-> Num(0)], [x |-> Num(60), y |-> NaN]}

\* map.latLngToLayerPoint: the point, or nothing usable
Projections(pt) == {pt, << >>}

MakeCurvedRoute ==
  /\ curve = NoCurve
  /\ \E hasCurve \in BOOLEAN, mapState \in {"null", "notLoaded", "loaded"},
        a \in PixelPoints, b \in PixelPoints :
       \E pA \in Projections(a), pB \in Projections(b) :
         curve' = [hasCurve |-> hasCurve, mapState |-> mapState,
                   from |-> a, to |-> b, pA |-> pA, pB |-> pB,
                   result |-> makeCurvedRoute(hasCurve, mapState, a, b, pA, pB),
                   geometry |-> IF CurveReady(hasCurve, mapState) /\ ~Unprojected(pA, pB)
                                THEN <<Geometry(pA, pB)>> ELSE << >>,
                   kind |-> "call"]
  /\ UNCHANGED <<animVars, seqVars>>

NextCurve == MakeCurvedRoute

SpecCurve == Init /\ [][NextCurve]_vars

----------------------------------------------------------------------------
(* Properties of the curve builder *)

Computed == curve.kind = "call" /\ curve.geometry # << >>

\* C3: makeCurvedRoute returns the straight two-point polyline from
\* fromLatLng to toLatLng whenever L.curve is missing, the map is null or
\* not loaded, or a projected end point or the control point is not
\* finite; otherwise it builds the curve.
C3_StraightFallback ==
  curve.kind = "call" =>
    IF /\ curve.hasCurve
       /\ curve.mapState = "loaded"
       /\ Computed
       /\ \A pt \in {curve.pA, curve.pB, curve.geometry[1].control} :
            IsFinite(pt.x) /\ IsFinite(pt.y)
    THEN /\ curve.result.kind = "curve"
         /\ Len(curve.result.points) = 3
         /\ curve.result.points[1] = curve.from
         /\ curve.result.points[3] = curve.to
    ELSE curve.result = [kind |-> "polyline", points |-> <<curve.from, curve.to>>]

C3_Witness ==
  /\ Computed
  /\ curve.hasCurve /\ curve.mapState = "loaded"
  /\ IsNaN(curve.pB.y) /\ IsFinite(curve.pA.x) /\ IsFinite(curve.pA.y)
  /\ curve.result.kind = "polyline"

Max(x, y) == IF x > y THEN x ELSE y

SampleLengths == {100 * k : k \in 0..(MaxStep + 1)} \cup {1}

\* C9: the bend is max(40, min(120, 0.15 * distance)), the distance of
\* coincident end points being taken as 1: it is at least 40, at most 120
\* and does not decrease as the distance grows.
C9_BendClamped ==
  Computed =>
    LET g == curve.geometry[1]
    IN /\ g.bend = Max(40, Min(120, (15 * g.len) \div 100))
       /\ g.bend >= 40 /\ g.bend <= 120
       /\ (IsFinite(g.dx) /\ IsFinite(g.dy) =>
             g.len * g.len = Max(1, g.dx[2] * g.dx[2] + g.dy[2] * g.dy[2]))
       /\ \A other \in SampleLengths :
            /\ other <= g.len => Bend(other) <= g.bend
            /\ other >= g.len => Bend(other) >= g.bend

C9_Witness ==
  /\ Computed
  /\ curve.pA = curve.pB /\ IsFinite(curve.pA.x) /\ IsFinite(curve.pA.y)
  /\ curve.geometry[1].len = 1
  /\ curve.geometry[1].bend = 40

----------------------------------------------------------------------------
(* Properties of the transition sequencer *)

Shown == markersLayer \cup routesLayer

NewAnims == {anims'[i] : i \in (Len(anims) + 1)..Len(anims')}

Superseded(token) == token \in resolved /\ Len(log[token].steps) = 3

\* C1: a transition that a newer period change has superseded never adds
\* its markers or routes to markersLayer / routesLayer and never starts
\* their fade-in.
C1_StaleNeverApplied ==
  [][/\ \A l \in (markersLayer' \cup routesLayer') \ Shown : TokenOf(l) = renderToken'
     /\ \A a \in NewAnims : a.kind = "fadeIn" => a.token = renderToken']_vars

C1_Witness ==
  \E token \in resolved :
    /\ token < renderToken
    /\ Superseded(token)
    /\ MarkerOf(token) \notin DOMAIN layers
    /\ RouteOf(token) \notin DOMAIN layers

AllFramesRun == \A i \in 1..Len(anims) : anims[i].pending = 0

TransitionSteps == <<"token", "fadeOut", "awaited", "clear", "build", "fadeIn">>

IsPrefix(s, t) == Len(s) <= Len(t) /\ \A i \in 1..Len(s) : s[i] = t[i]

\* C5: the steps of a transition occur in the order token, fade-out,
\* await, clear, build, fade-in; layers are added only in a step that has
\* emptied both groups and reset selectedMarker, only after the fade-out
\* started by the same transition has been awaited, and a fade-in starts
\* only on layers added in that step.
C5_TransitionOrder ==
  [][/\ \A token \in 1..Len(log') : IsPrefix(log'[token].steps, TransitionSteps)
     /\ renderToken' # renderToken =>
          /\ renderToken' = renderToken + 1
          /\ markersLayer' = markersLayer /\ routesLayer' = routesLayer
          /\ \A l \in Shown : \E a \in NewAnims :
                a.layer = l /\ a.kind = "fadeOut" /\ a.token = renderToken'
     /\ (markersLayer' \cup routesLayer') \ Shown # {} =>
          /\ (markersLayer' \cup routesLayer') \cap Shown = {}
          /\ selectedMarker' = Null
          /\ \A l \in markersLayer' \cup routesLayer' :
                /\ TokenOf(l) \in resolved' \ resolved
                /\ \E a \in NewAnims : a.layer = l /\ a.kind = "fadeIn"
     /\ \A a \in NewAnims :
          a.kind = "fadeIn" => a.layer \in (markersLayer' \cup routesLayer') \ Shown]_vars

C5_Witness ==
  /\ renderToken >= 2
  /\ log[renderToken].steps = TransitionSteps
  /\ log[1].steps = TransitionSteps
  /\ markersLayer = {MarkerOf(renderToken)}
  /\ selectedMarker = Null

Completed(a) == a.ended /\ a.pending = 0 /\ a.lastNow - a.start >= a.dur

\* C6: there is no cancellation: an animation has a frame requested until
\* a frame reaches its duration, whatever period changes follow, and with
\* frames delivered and time advancing every animation that has started
\* reaches the frame that applies its final style and requests no other.
C6_EveryAnimationCompletes ==
  /\ [](\A i \in 1..Len(anims) : ~anims[i].ended => anims[i].pending = 1)
  /\ ((\E i \in 1..Len(anims) : ~Completed(anims[i]))
        ~> (\A i \in 1..Len(anims) : Completed(anims[i])))

C6_Witness ==
  \E i \in 1..Len(anims) :
    /\ anims[i].ended
    /\ anims[i].kind = "fadeIn"
    /\ anims[i].token < renderToken
    /\ anims[i].layer \notin Shown

FadeOutsOf(token) ==
  {i \in 1..Len(anims) : anims[i].kind = "fadeOut" /\ anims[i].token = token}

\* C7: when the promise of fadeOutLayers resolves, every fade-out
\* animation the call started has applied its final style, opacity 0 (and
\* fillOpacity 0 for markers).
C7_FadeOutCompleteOnResolve ==
  \A token \in resolved : \A i \in FadeOutsOf(token) :
    /\ anims[i].ended
    /\ anims[i].last[1] = anims[i].to
    /\ \A k \in DOMAIN anims[i].to : anims[i].to[k] = 0

\* C7, amended: when the promise resolves at least durationMs have passed
\* since the call, and a fade-out animation that has ended has applied
\* opacity 0; an animation may still have its last frame pending.
C7_ResolvesAfterDuration ==
  \A token \in resolved : \A i \in FadeOutsOf(token) :
    /\ clock - anims[i].start >= anims[i].dur
    /\ anims[i].ended => anims[i].last[1] = anims[i].to
    /\ \A k \in DOMAIN anims[i].to : anims[i].to[k] = 0

C7_Witness ==
  \E token \in resolved : \E i \in FadeOutsOf(token) :
    ~anims[i].ended /\ anims[i].pending = 1

----------------------------------------------------------------------------
(* Properties of the style animator *)

Started(a) == a.last # << >>

Finished(a) == a.pending = 0

FromValue(a, k) == IF k \in DOMAIN a.from THEN a.from[k] ELSE 0

Between(x, lo, hi) == (lo <= x /\ x <= hi) \/ (hi <= x /\ x <= lo)

\* C2: the last style an animation applies has exactly the value to[k] for
\* every key k of `to`, and it is applied on the first frame whose elapsed
\* time is at least durationMs.
C2_FinalStyleIsTarget ==
  \A i \in 1..Len(anims) :
    LET a == anims[i]
    IN /\ (Finished(a) => a.last[1] = a.to /\ a.lastNow - a.start >= a.dur)
       /\ (Started(a) /\ ~Finished(a) => a.lastNow - a.start < a.dur)

\* C8: onDone is invoked exactly once, on the frame where t has reached 1
\* and after its setStyle; a frame with t < 1 requests exactly one further
\* frame and does not invoke onDone; after onDone no frame is requested and
\* setStyle is not called again.
C8_OnDoneExactlyOnceAtEnd ==
  \A i \in 1..Len(anims) :
    LET a == anims[i]
    IN a.onDone =>
         /\ a.pending \in {0, 1}
         /\ a.doneCalls = (IF a.ended THEN 1 ELSE 0)
         /\ (a.ended <=> a.pending = 0)
         /\ (a.ended => Started(a) /\ a.lastNow - a.start >= a.dur)
         /\ (Started(a) /\ ~a.ended => a.lastNow - a.start < a.dur)
         /\ ~a.late

C8_Witness ==
  \E i \in 1..Len(anims) :
    anims[i].onDone /\ anims[i].early /\ anims[i].ended /\ anims[i].doneCalls = 1

\* C10: every applied style has exactly the keys of `to`, and each applied
\* value lies between the starting value (from[k], or 0) and to[k].
C10_AppliedStyleWithinRange ==
  \A i \in 1..Len(anims) :
    LET a == anims[i]
    IN Started(a) =>
         /\ DOMAIN a.last[1] = DOMAIN a.to
         /\ \A k \in DOMAIN a.to : Between(a.last[1][k], FromValue(a, k), a.to[k])

====
